---- MODULE Spec2Model ----
(***************************************************************************)
(* Model of the DiscordMathBot plugins:                                    *)
(*   plugins/discord_log.py  the DiscordHandler log relay                  *)
(*   util/restart.py         the restart trigger and its exit hook         *)
(*   bot/privileges.py       the privilege store and the priv commands     *)
(*                                                                         *)
(* Spec      : log relay + restart trigger (they share the client and the  *)
(*             event loop).                                                *)
(* SpecPriv  : priv commands, invocations interleaving at their awaits.    *)
(* SpecPrivSeq : priv commands run one after another.                      *)
(***************************************************************************)
EXTENDS Integers, Sequences, FiniteSets, TLC

VARIABLES
    \* ---- plugins/discord_log.py ----
    queue,        \* DiscordHandler.queue: pending lines, oldest first
    fwd,          \* the log_discord tasks created so far, by creation index
    running,      \* task currently executing between two awaits (0: none)
    sends,        \* calls of ChannelById(...).send, in call order
    nAccepted,    \* number of lines appended to the queue so far
    nEmit,        \* number of emit() calls so far
    lastEmit,     \* outcome of the most recent emit() call
    anyFail,      \* some send has failed
    channel,      \* conf.channel
    clientClosed, \* client.is_closed()
    loopState,    \* the asyncio event loop: running / stopping / stopped / closed
    pending,      \* tasks whose next step was scheduled when loop.stop() was called
    \* ---- util/restart.py ----
    will_restart,   \* module global will_restart
    restartCalled,  \* restart() has returned
    exitState,      \* process: "up", "exited", "execd", "hook_raised"
    \* ---- bot/privileges.py ----
    conf,         \* conf[priv, "users"], conf[priv, "roles"]
    slot,         \* command invocations in flight
    nCmds,        \* number of commands invoked so far
    last,         \* outcome of the command that finished most recently
    gone          \* history: sets removed by priv delete and not created since

relayVars == <<queue, fwd, running, sends, nAccepted, nEmit, lastEmit,
               anyFail, channel, clientClosed, loopState, pending>>
restartVars == <<will_restart, restartCalled, exitState>>
privVars == <<conf, slot, nCmds, last, gone>>
vars == <<relayVars, restartVars, privVars>>

(***************************************************************************)
(* Bounds                                                                  *)
(***************************************************************************)
MaxEmits == 3        \* emit() calls explored
ShortLen == 900      \* length of a short log line
MaxFails == 1        \* failing sends explored
MaxCmds == 2         \* priv commands explored, invocations interleaving
MaxSeqCmds == 4      \* priv commands explored, run one after another
MaxInFlight == 2     \* priv command invocations in flight at once

(***************************************************************************)
(* plugins/discord_log.py                                                  *)
(***************************************************************************)
Limit == 2000
CodeblockOverhead == 9

\* conf.channel is Optional[str]: None, or a string of characters.
NoChannel == [isNone |-> TRUE, s |-> <<>>]
Str(s) == [isNone |-> FALSE, s |-> s]

\* format("{!b:py}", text): the line wrapped in a py code block.
CodeblockLen(textLen) == textLen + CodeblockOverhead

\* Log line lengths explored: short; wrapped exactly at the limit; wrapped
\* one past the limit.
LineLens == {ShortLen, Limit - CodeblockOverhead, Limit - CodeblockOverhead + 1}
\* Log lines explored: of each length one that utf-8 encodes, and an
\* oversized one that it does not encode (a lone surrogate in the text).
Texts == {[len |-> l, utf8 |-> TRUE] : l \in LineLens}
         \cup {[len |-> Limit - CodeblockOverhead + 1, utf8 |-> FALSE]}

\* A character is its Unicode code point.
\* The code points of the digit zero of every script with decimal digits;
\* the digits 1..9 of the script follow it.
DigitZeros == {
    48, 1632, 1776, 1984, 2406, 2534, 2662, 2790, 2918, 3046, 3174, 3302,
    3430, 3558, 3664, 3792, 3872, 4160, 4240, 6112, 6160, 6470, 6608, 6784,
    6800, 6992, 7088, 7232, 7248, 42528, 43216, 43264, 43472, 43504, 43600,
    44016, 65296, 66720, 68912, 69734, 69872, 69942, 70096, 70384, 70736,
    70864, 71248, 71360, 71472, 71904, 72016, 72784, 73040, 73120, 92768,
    92864, 93008, 120782, 120792, 120802, 120812, 120822, 123200, 123632,
    125264, 130032}
IsDigit(c) == \E z \in DigitZeros : c \in z..(z + 9)
\* The decimal digits int() accepts, with their values.
DigitVal == [c \in UNION {z..(z + 9) : z \in DigitZeros} |->
               c - (CHOOSE z \in DigitZeros : c \in z..(z + 9))]
\* The whitespace int() strips from both ends.
Whitespace == {9, 10, 11, 12, 13, 32, 133, 160, 5760} \cup (8192..8202)
              \cup {8232, 8233, 8239, 8287, 12288}
Plus == 43
Minus == 45
Underscore == 95
\* The most digits int() converts (sys.int_max_str_digits).
MaxStrDigits == 4300

\* conf.channel values: unset, not a number, a number (written with a
\* sign), a digit followed by a letter.
\* "logs", "+42", "4x"
ChannelValues == {NoChannel, Str(<<108, 111, 103, 115>>), Str(<<Plus, 52, 50>>),
                  Str(<<52, 120>>)}

RECURSIVE LStrip(_)
LStrip(s) == IF Len(s) > 0 /\ Head(s) \in Whitespace THEN LStrip(Tail(s)) ELSE s
RECURSIVE RStrip(_)
RStrip(s) == IF Len(s) > 0 /\ s[Len(s)] \in Whitespace
             THEN RStrip(SubSeq(s, 1, Len(s) - 1)) ELSE s
\* The literal without surrounding whitespace and without its sign.
Unsigned(s) ==
    LET t == RStrip(LStrip(s))
    IN  IF Len(t) > 0 /\ Head(t) \in {Plus, Minus} THEN Tail(t) ELSE t
Negative(s) ==
    LET t == LStrip(s) IN Len(t) > 0 /\ Head(t) = Minus
\* The digits of the literal, underscores left out.
Digits(s) == SelectSeq(Unsigned(s), LAMBDA c : c # Underscore)

\* int(conf.channel) raises no ValueError: optional whitespace, an optional
\* sign, then digits, single underscores allowed between digits, and no
\* more than MaxStrDigits digits.
IntParses(s) ==
    LET u == Unsigned(s)
    IN  /\ Len(u) > 0
        /\ \A i \in 1..Len(u) : IsDigit(u[i]) \/ u[i] = Underscore
        /\ u[1] # Underscore /\ u[Len(u)] # Underscore
        /\ \A i \in 1..(Len(u) - 1) : ~(u[i] = Underscore /\ u[i + 1] = Underscore)
        /\ Len(Digits(s)) <= MaxStrDigits
RECURSIVE DigitsValue(_)
DigitsValue(d) == IF Len(d) = 0 THEN 0
                  ELSE 10 * DigitsValue(SubSeq(d, 1, Len(d) - 1)) + DigitVal[d[Len(d)]]
\* int(conf.channel) for a literal that parses.
IntValue(s) == IF Negative(s) THEN 0 - DigitsValue(Digits(s)) ELSE DigitsValue(Digits(s))

EmptyMessage == [len |-> 0, ids |-> <<>>]
NoText == [id |-> 0, len |-> 0, utf8 |-> TRUE]
NoTask == [pc |-> "none", message |-> EmptyMessage, text |-> NoText, chan_id |-> 0]
TaskIds == 1..(MaxEmits + MaxFails)


\* emit() without the no_discord test.
emit_no_marker_test(record, thread, nested, loop, chan, closed, q, nextId) ==
    LET out(reason, q2, spawn, raised) ==
            [reason |-> reason, queue |-> q2, spawn |-> spawn, raised |-> raised]
        line == [id |-> nextId, len |-> record.len, utf8 |-> record.utf8]
    IN  IF thread # "loop" THEN out("no_loop", q, FALSE, FALSE)
        ELSE IF loop = "closed" THEN out("loop_closed", q, FALSE, FALSE)
        ELSE IF chan.isNone THEN out("no_channel", q, FALSE, FALSE)
        ELSE IF ~IntParses(chan.s) THEN out("bad_channel", q, FALSE, FALSE)
        ELSE IF closed THEN out("client_closed", q, FALSE, FALSE)
        ELSE IF nested THEN out("nested", q, FALSE, FALSE)
        ELSE IF Len(q) > 0 THEN out("queued", Append(q, line), FALSE, FALSE)
        ELSE IF loop \in {"running", "stopping"} THEN out("queued", Append(q, line), TRUE, FALSE)
        ELSE out("queued", Append(q, line), FALSE, TRUE)

\* emit() without the walk over the calling frames.
emit_no_frame_test(record, thread, nested, loop, chan, closed, q, nextId) ==
    LET out(reason, q2, spawn, raised) ==
            [reason |-> reason, queue |-> q2, spawn |-> spawn, raised |-> raised]
        line == [id |-> nextId, len |-> record.len, utf8 |-> record.utf8]
    IN  IF record.no_discord THEN out("no_discord", q, FALSE, FALSE)
        ELSE IF thread # "loop" THEN out("no_loop", q, FALSE, FALSE)
        ELSE IF loop = "closed" THEN out("loop_closed", q, FALSE, FALSE)
        ELSE IF chan.isNone THEN out("no_channel", q, FALSE, FALSE)
        ELSE IF ~IntParses(chan.s) THEN out("bad_channel", q, FALSE, FALSE)
        ELSE IF closed THEN out("client_closed", q, FALSE, FALSE)
        ELSE IF Len(q) > 0 THEN out("queued", Append(q, line), FALSE, FALSE)
        ELSE IF loop \in {"running", "stopping"} THEN out("queued", Append(q, line), TRUE, FALSE)
        ELSE out("queued", Append(q, line), FALSE, TRUE)

\* DiscordHandler.emit as a function of the record and of what it reads.
\*   record.no_discord : the record carries the no_discord attribute
\*   thread            : "loop" for the event-loop thread, "other" otherwise
\*   nested            : a log_discord frame is on the calling stack
\* Result: why it returned, the queue afterwards, whether create_task ran,
\* and whether the call raised.
emit(record, thread, nested, loop, chan, closed, q, nextId) ==
    LET out(reason, q2, spawn, raised) ==
            [reason |-> reason, queue |-> q2, spawn |-> spawn, raised |-> raised]
        line == [id |-> nextId, len |-> record.len, utf8 |-> record.utf8]
    IN  IF record.no_discord THEN out("no_discord", q, FALSE, FALSE)
        ELSE IF thread # "loop" THEN out("no_loop", q, FALSE, FALSE)
        ELSE IF loop = "closed" THEN out("loop_closed", q, FALSE, FALSE)
        ELSE IF chan.isNone THEN out("no_channel", q, FALSE, FALSE)
        ELSE IF ~IntParses(chan.s) THEN out("bad_channel", q, FALSE, FALSE)
        ELSE IF closed THEN out("client_closed", q, FALSE, FALSE)
        ELSE IF nested THEN out("nested", q, FALSE, FALSE)
        ELSE IF Len(q) > 0 THEN out("queued", Append(q, line), FALSE, FALSE)
        ELSE IF loop \in {"running", "stopping"} THEN out("queued", Append(q, line), TRUE, FALSE)
        ELSE out("queued", Append(q, line), FALSE, TRUE)

\* Index of the next task to create.
NextTask == CHOOSE t \in TaskIds : fwd[t].pc = "none" /\ \A u \in TaskIds : u < t => fwd[u].pc # "none"

\* The effect of one emit() call with result r; base is the task table the
\* call starts from, report tells the record is log_discord's failure
\* report, thread is the thread the call was made on.
ApplyEmit(r, base, report, thread) ==
    /\ queue' = r.queue
    /\ nAccepted' = IF r.reason = "queued" THEN nAccepted + 1 ELSE nAccepted
    /\ lastEmit' = [reason |-> r.reason, spawn |-> r.spawn, raised |-> r.raised,
                    report |-> report, thread |-> thread]
    /\ fwd' = IF r.spawn
              THEN [base EXCEPT ![NextTask] =
                        [pc |-> "ready", message |-> EmptyMessage, text |-> NoText,
                         chan_id |-> IntValue(channel.s)]]
              ELSE base

\* emit(), lines 80-88: the walk up the calling frames finds log_discord.
\* Code on the event-loop thread has a log_discord frame below it exactly
\* while a forwarding task is executing between two suspensions.
InLogDiscord == running # 0

\* A record of level ERROR or above reaches emit() from code running on the
\* event-loop thread: from a callback or another task between the steps of
\* the forwarding tasks, or from code called by a log_discord that is
\* executing (the send it awaits included).
Emit ==
    /\ exitState = "up"
    /\ nEmit < MaxEmits
    /\ \E t \in Texts :
          ApplyEmit(emit([no_discord |-> FALSE, len |-> t.len, utf8 |-> t.utf8], "loop",
                         InLogDiscord, loopState, channel, clientClosed, queue,
                         nAccepted + 1),
                    fwd, FALSE, "loop")
    /\ nEmit' = nEmit + 1
    /\ UNCHANGED <<running, sends, anyFail, channel, clientClosed, loopState, pending>>
    /\ UNCHANGED <<restartVars, privVars>>

\* A record logged from a thread that has no event loop; the frames of that
\* thread hold no log_discord.
EmitOtherThread ==
    /\ exitState = "up"
    /\ nEmit < MaxEmits
    /\ \E t \in Texts :
          ApplyEmit(emit([no_discord |-> FALSE, len |-> t.len, utf8 |-> t.utf8], "other", FALSE,
                         loopState, channel, clientClosed, queue, nAccepted + 1),
                    fwd, FALSE, "other")
    /\ nEmit' = nEmit + 1
    /\ UNCHANGED <<running, sends, anyFail, channel, clientClosed, loopState, pending>>
    /\ UNCHANGED <<restartVars, privVars>>

\* The event loop can run the next step of task f: the loop is running, or
\* loop.stop() was called and the step was already scheduled; the loop then
\* finishes the iteration it is in.
Runnable(f) == loopState = "running" \/ (loopState = "stopping" /\ f \in pending)

\* The except branch of log_discord in task f, the queue being q: the
\* failure is logged with extra={"no_discord": True}, that record reaches
\* emit() with log_discord on the stack, and the task ends.
ReportFailure(f, q) ==
    \E t \in Texts :
        ApplyEmit(emit([no_discord |-> TRUE, len |-> t.len, utf8 |-> t.utf8], "loop", TRUE,
                       loopState, channel, clientClosed, q, nAccepted + 1),
                  [fwd EXCEPT ![f].pc = "failed", ![f].text = NoText], TRUE, "loop")

\* A send({message}) call as recorded in sends.
MessageSend(m) == [kind |-> "message", ids |-> m.ids, len |-> m.len]
\* A send(file=File(text, "log.txt")) call as recorded in sends.
FileSend(text) == [kind |-> "file", ids |-> <<text.id>>, len |-> text.len]


\* The overflow test with the popped line left out of the sum.
Overflows_buffer_only(message, text) == message.len > Limit

\* log_discord, lines 43-44: the line does not fit into the buffer.
Overflows(message, text) == message.len + CodeblockLen(text.len) > Limit

\* log_discord, lines 46-51, the queue being q: after the flush, the popped
\* line restarts the buffer, or goes out as a file; text.encode("utf8") is
\* evaluated before send is called, and when it raises the except branch
\* ends the task with nothing sent.  The awaited send starts to execute in
\* the same step of the task: the task stays the running one.
PlaceLine(f, text, q) ==
    IF CodeblockLen(text.len) > Limit
    THEN IF text.utf8
         THEN /\ sends' = Append(sends, FileSend(text))
              /\ fwd' = [fwd EXCEPT ![f].pc = "send_file", ![f].text = text]
              /\ running' = f
              /\ queue' = q
              /\ UNCHANGED <<nAccepted, lastEmit>>
         ELSE /\ ReportFailure(f, q)
              /\ running' = 0
              /\ UNCHANGED sends
    ELSE /\ fwd' = [fwd EXCEPT ![f].pc = "loop", ![f].text = NoText,
                                ![f].message = [len |-> CodeblockLen(text.len),
                                                ids |-> <<text.id>>]]
         /\ running' = f
         /\ queue' = q
         /\ UNCHANGED <<sends, nAccepted, lastEmit>>

\* The event loop starts a created task: log_discord runs up to its loop.
TaskStart(f) ==
    /\ exitState = "up" /\ Runnable(f)
    /\ running = 0
    /\ fwd[f].pc = "ready"
    /\ fwd' = [fwd EXCEPT ![f].pc = "loop", ![f].message = EmptyMessage]
    /\ running' = f
    /\ pending' = pending \ {f}
    /\ UNCHANGED <<queue, sends, nAccepted, nEmit, lastEmit, anyFail, channel,
                   clientClosed, loopState>>
    /\ UNCHANGED <<restartVars, privVars>>

\* One evaluation of the while condition (queue_pop) and of the loop body up
\* to the call of the next awaited send, or the final flush when the queue
\* is empty.  The send called starts to execute inside the task's step: it
\* then returns (SendDone), raises (SendFail) or suspends (SendSuspend).
LoopIter(f) ==
    /\ exitState = "up" /\ loopState \in {"running", "stopping"}
    /\ running = f
    /\ fwd[f].pc = "loop"
    /\ IF Len(queue) = 0
       THEN /\ UNCHANGED <<queue, nAccepted, lastEmit>>
            /\ IF fwd[f].message.len > 0
               THEN /\ sends' = Append(sends, MessageSend(fwd[f].message))
                    /\ fwd' = [fwd EXCEPT ![f].pc = "send_final"]
                    /\ running' = f
               ELSE /\ fwd' = [fwd EXCEPT ![f].pc = "done"]
                    /\ running' = 0
                    /\ UNCHANGED sends
       ELSE LET text == Head(queue) IN
            IF Overflows(fwd[f].message, text)
            THEN IF fwd[f].message.len > 0
                 THEN /\ sends' = Append(sends, MessageSend(fwd[f].message))
                      /\ fwd' = [fwd EXCEPT ![f].pc = "send_flush", ![f].text = text]
                      /\ running' = f
                      /\ queue' = Tail(queue)
                      /\ UNCHANGED <<nAccepted, lastEmit>>
                 ELSE PlaceLine(f, text, Tail(queue))
            ELSE /\ fwd' = [fwd EXCEPT ![f].message =
                                [len |-> @.len + CodeblockLen(text.len),
                                 ids |-> Append(@.ids, text.id)]]
                 /\ queue' = Tail(queue)
                 /\ UNCHANGED <<sends, running, nAccepted, lastEmit>>
    /\ UNCHANGED <<nEmit, anyFail, channel, clientClosed, loopState, pending>>
    /\ UNCHANGED <<restartVars, privVars>>

\* The pcs at which log_discord is inside an awaited send.
InSend == {"send_flush", "send_file", "send_final"}

\* The event loop resumes task f, suspended inside an awaited send: the send
\* runs on with log_discord below it on the stack.
SendResume(f) ==
    /\ exitState = "up" /\ Runnable(f)
    /\ running = 0
    /\ fwd[f].pc \in InSend
    /\ running' = f
    /\ pending' = pending \ {f}
    /\ UNCHANGED <<queue, fwd, sends, nAccepted, nEmit, lastEmit, anyFail, channel,
                   clientClosed, loopState>>
    /\ UNCHANGED <<restartVars, privVars>>

\* The executing send reaches an await that suspends it: task f is
\* suspended inside the send.
SendSuspend(f) ==
    /\ exitState = "up"
    /\ running = f
    /\ fwd[f].pc \in InSend
    /\ running' = 0
    /\ UNCHANGED <<queue, fwd, sends, nAccepted, nEmit, lastEmit, anyFail, channel,
                   clientClosed, loopState, pending>>
    /\ UNCHANGED <<restartVars, privVars>>

\* The executing send returns and log_discord runs on to its next send.
SendDone(f) ==
    /\ exitState = "up"
    /\ running = f
    /\ fwd[f].pc \in InSend
    /\ CASE fwd[f].pc = "send_flush" -> PlaceLine(f, fwd[f].text, queue)
         [] fwd[f].pc = "send_file" ->
              /\ fwd' = [fwd EXCEPT ![f].pc = "loop", ![f].message = EmptyMessage,
                                     ![f].text = NoText]
              /\ UNCHANGED <<sends, running, queue, nAccepted, lastEmit>>
         [] fwd[f].pc = "send_final" ->
              /\ fwd' = [fwd EXCEPT ![f].pc = "done"]
              /\ running' = 0
              /\ UNCHANGED <<sends, queue, nAccepted, lastEmit>>
    /\ UNCHANGED <<nEmit, anyFail, channel, clientClosed, loopState, pending>>
    /\ UNCHANGED <<restartVars, privVars>>

\* The executing send raises inside log_discord: the except branch runs and
\* the task ends.  MaxFails bounds the tasks that have ended in the except
\* branch.
SendFail(f) ==
    /\ exitState = "up"
    /\ running = f
    /\ fwd[f].pc \in InSend
    /\ Cardinality({t \in TaskIds : fwd[t].pc = "failed"}) < MaxFails
    /\ ReportFailure(f, queue)
    /\ anyFail' = TRUE
    /\ running' = 0
    /\ UNCHANGED <<sends, nEmit, channel, clientClosed, loopState, pending>>
    /\ UNCHANGED <<restartVars, privVars>>

(***************************************************************************)
(* util/restart.py                                                         *)
(***************************************************************************)
\* restart(): the assignment will_restart = True has no global declaration,
\* so it binds a local of restart() and the module global keeps its value.
restart_flag(global_flag) == global_flag

\* discord_client.client.close() is called without await: the call only
\* creates a coroutine object that is never run, the client stays as it is.
restart_client(closed) == closed

\* The steps of forwarding tasks that can already be scheduled when
\* loop.stop() is called: the first step of a created task, the wake-up of a
\* task whose send has completed.
Scheduled == {f \in TaskIds : fwd[f].pc \in {"ready", "send_flush", "send_file", "send_final"}}

\* restart(), called from a callback of the running loop.  loop.stop() only
\* flags the loop: it finishes the iteration it is in.
Restart ==
    /\ exitState = "up" /\ loopState = "running"
    /\ running = 0
    /\ will_restart' = restart_flag(will_restart)
    /\ restartCalled' = TRUE
    /\ clientClosed' = restart_client(clientClosed)
    /\ loopState' = "stopping"
    /\ pending' = Scheduled
    /\ UNCHANGED <<queue, fwd, running, sends, nAccepted, nEmit, lastEmit, anyFail, channel>>
    /\ UNCHANGED <<exitState, privVars>>

\* The loop iteration in which loop.stop() was called ends: run_forever
\* returns, steps not run in it stay scheduled.
LoopStop ==
    /\ exitState = "up" /\ loopState = "stopping"
    /\ running = 0
    /\ loopState' = "stopped"
    /\ pending' = {}
    /\ UNCHANGED <<queue, fwd, running, sends, nAccepted, nEmit, lastEmit, anyFail,
                   channel, clientClosed>>
    /\ UNCHANGED <<restartVars, privVars>>

\* The stopped event loop is closed by the main program.
LoopClose ==
    /\ exitState = "up" /\ loopState = "stopped"
    /\ loopState' = "closed"
    /\ UNCHANGED <<queue, fwd, running, sends, nAccepted, nEmit, lastEmit, anyFail,
                   channel, clientClosed, pending>>
    /\ UNCHANGED <<restartVars, privVars>>

\* The client is closed by code that awaits client.close() (its owner, at
\* shutdown); emit() reads the result through client.is_closed().
ClientClose ==
    /\ exitState = "up" /\ loopState = "running"
    /\ running = 0
    /\ ~clientClosed
    /\ clientClosed' = TRUE
    /\ UNCHANGED <<queue, fwd, running, sends, nAccepted, nEmit, lastEmit, anyFail,
                   channel, loopState, pending>>
    /\ UNCHANGED <<restartVars, privVars>>

\* atexit_restart_maybe(): with the flag unset the hook does nothing; with
\* the flag set, sys.interpreter is evaluated before the try block and sys
\* has no such attribute, so AttributeError leaves the hook.
atexit_restart_maybe(flag) == IF flag THEN "hook_raised" ELSE "exited"

\* The process exits and runs its exit hooks.
ProcessExit ==
    /\ exitState = "up"
    /\ running = 0
    /\ exitState' = atexit_restart_maybe(will_restart)
    /\ UNCHANGED <<relayVars, will_restart, restartCalled, privVars>>

(***************************************************************************)
(* bot/privileges.py                                                       *)
(***************************************************************************)
PrivNames == {"shell", "mod"}
UserIds == {1, 2}
RoleIds == {10, 11}
Ids == UserIds \cup RoleIds

\* Optional[FrozenList[int]]: None, or a list of IDs.
NoneList == [none |-> TRUE, ids |-> <<>>]
List(ids) == [none |-> FALSE, ids |-> ids]

\* A User (no role context) or a Member (with roles).
Actors == {[id |-> u, member |-> FALSE, roles |-> {}] : u \in UserIds}
          \cup {[id |-> u, member |-> TRUE, roles |-> R] : u \in UserIds, R \in SUBSET RoleIds}

\* The actors that invoke commands: the bot owner in a DM, a member without
\* roles, a member holding role 10.
Invokers == {[id |-> 1, member |-> FALSE, roles |-> {}],
             [id |-> 2, member |-> TRUE, roles |-> {}],
             [id |-> 2, member |-> TRUE, roles |-> {10}]}

Cmds == {"new", "delete", "show", "add_user", "add_role", "remove_user", "remove_role"}

\* Python truth value of an Optional list: None and [] are false.
Truthy(l) == ~l.none /\ Len(l.ids) > 0
\* x in l
InList(x, l) == \E i \in 1..Len(l.ids) : l.ids[i] = x
\* l or FrozenList()
OrEmpty(l) == IF Truthy(l) THEN l.ids ELSE <<>>
\* list.remove(x): the list without the first occurrence of x.
RECURSIVE ListRemove(_, _)
ListRemove(ids, x) ==
    IF Len(ids) = 0 THEN <<>>
    ELSE IF Head(ids) = x THEN Tail(ids)
    ELSE <<Head(ids)>> \o ListRemove(Tail(ids), x)


\* has_privilege with the role check left out.
has_privilege_users_only(c, priv, actor) ==
    Truthy(c[priv].users) /\ InList(actor.id, c[priv].users)

has_privilege(c, priv, actor) ==
    LET users == c[priv].users
        roles == c[priv].roles
    IN  IF Truthy(users) /\ InList(actor.id, users) THEN TRUE
        ELSE IF Truthy(roles) /\ actor.member
             THEN \E r \in actor.roles : InList(r, roles)
             ELSE FALSE


\* A check that lets every actor through while the set does not exist.
PrivCheck_call_unset_open(c, priv, actor) ==
    (c[priv].users.none /\ c[priv].roles.none) \/ has_privilege(c, priv, actor)

\* A check that lets every actor through.
PrivCheck_call_open(c, priv, actor) == TRUE

\* PrivCheck.__call__ for the check PrivCheck(priv).
PrivCheck_call(c, priv, actor) == has_privilege(c, priv, actor)

priv_exists(c, priv) == ~c[priv].users.none \/ ~c[priv].roles.none

\* validate_priv: the UserError raised, or "none".
validate_priv(c, priv) == IF ~priv_exists(c, priv) THEN "does_not_exist" ELSE "none"

Result(c, error) == [conf |-> c, error |-> error]


\* priv_new that initialises the lists before testing for existence.
priv_new_write_first(c, priv) ==
    Result([c EXCEPT ![priv] = [users |-> List(<<>>), roles |-> List(<<>>)]],
           IF priv_exists(c, priv) THEN "already_exists" ELSE "none")

\* Each command body up to its first await: the store afterwards and the
\* UserError raised ("none" when the body goes on to await conf).
priv_new(c, priv) ==
    IF priv_exists(c, priv) THEN Result(c, "already_exists")
    ELSE Result([c EXCEPT ![priv] = [users |-> List(<<>>), roles |-> List(<<>>)]], "none")


\* priv_delete that unsets the users list only.
priv_delete_users_only(c, priv) ==
    IF validate_priv(c, priv) # "none" THEN Result(c, validate_priv(c, priv))
    ELSE Result([c EXCEPT ![priv].users = NoneList], "none")

priv_delete(c, priv) ==
    IF validate_priv(c, priv) # "none" THEN Result(c, validate_priv(c, priv))
    ELSE Result([c EXCEPT ![priv] = [users |-> NoneList, roles |-> NoneList]], "none")

\* priv_show: the members listed in the output, users first.
priv_show_output(c, priv) ==
    [i \in 1..Len(OrEmpty(c[priv].users)) |-> <<"user", OrEmpty(c[priv].users)[i]>>]
    \o [i \in 1..Len(OrEmpty(c[priv].roles)) |-> <<"role", OrEmpty(c[priv].roles)[i]>>]

\* priv_add / priv_remove group callbacks: validate_priv, then ctx.priv = priv.
priv_add(c, priv) == validate_priv(c, priv)
priv_remove(c, priv) == validate_priv(c, priv)


\* priv_add_user without the membership test.
priv_add_user_no_test(c, priv, id) ==
    Result([c EXCEPT ![priv].users = List(Append(OrEmpty(c[priv].users), id))], "none")

priv_add_user(c, priv, id) ==
    LET users == OrEmpty(c[priv].users)
    IN  IF \E i \in 1..Len(users) : users[i] = id THEN Result(c, "already_in")
        ELSE Result([c EXCEPT ![priv].users = List(Append(users, id))], "none")

priv_add_role(c, priv, id) ==
    LET roles == OrEmpty(c[priv].roles)
    IN  IF \E i \in 1..Len(roles) : roles[i] = id THEN Result(c, "already_in")
        ELSE Result([c EXCEPT ![priv].roles = List(Append(roles, id))], "none")

priv_remove_user(c, priv, id) ==
    LET users == OrEmpty(c[priv].users)
    IN  IF ~\E i \in 1..Len(users) : users[i] = id THEN Result(c, "not_in")
        ELSE Result([c EXCEPT ![priv].users = List(ListRemove(users, id))], "none")

priv_remove_role(c, priv, id) ==
    LET roles == OrEmpty(c[priv].roles)
    IN  IF ~\E i \in 1..Len(roles) : roles[i] = id THEN Result(c, "not_in")
        ELSE Result([c EXCEPT ![priv].roles = List(ListRemove(roles, id))], "none")

\* The body of an add/remove subcommand.
SubBody(cmd, c, priv, id) ==
    CASE cmd = "add_user" -> priv_add_user(c, priv, id)
      [] cmd = "add_role" -> priv_add_role(c, priv, id)
      [] cmd = "remove_user" -> priv_remove_user(c, priv, id)
      [] cmd = "remove_role" -> priv_remove_role(c, priv, id)

\* priv_show: the users it has to fetch before it sends the listing.
ToFetch(c, priv) == Len(OrEmpty(c[priv].users))

\* A command body that goes on without await conf.
FirstAwait_no_persist(cmd, c, priv) ==
    IF cmd = "show" /\ ToFetch(c, priv) > 0 THEN "fetch" ELSE "send"

\* The first await of a command body that raised no UserError: show awaits
\* client.fetch_user for its first user, or ctx.send when there is no user;
\* every mutating command awaits conf (the store being persisted) and only
\* then ctx.send.
FirstAwait(cmd, c, priv) ==
    IF cmd = "show" THEN (IF ToFetch(c, priv) > 0 THEN "fetch" ELSE "send")
    ELSE "persist"

Slots == 1..MaxInFlight
IdleSlot == [pc |-> "idle", cmd |-> "none", priv |-> "none", arg |-> 0,
             output |-> <<>>, auth |-> FALSE, todo |-> 0]
NoOutcome == [cmd |-> "none", priv |-> "none", arg |-> 0, result |-> "none",
              output |-> <<>>, auth |-> FALSE]

\* The actor is in the users list of the set, or is a Member with a role in
\* its roles list.
InPrivSet(c, priv, actor) ==
    \/ (~c[priv].users.none /\ actor.id \in {c[priv].users.ids[i] : i \in 1..Len(c[priv].users.ids)})
    \/ (actor.member /\ ~c[priv].roles.none
          /\ actor.roles \cap {c[priv].roles.ids[i] : i \in 1..Len(c[priv].roles.ids)} # {})

Outcome(cmd, priv, arg, result, output, auth) ==
    [cmd |-> cmd, priv |-> priv, arg |-> arg, result |-> result, output |-> output,
     auth |-> auth]
\* An invocation suspended at pc; todo counts the users priv_show has still
\* to fetch.
Busy(pc, cmd, priv, arg, output, auth) ==
    [pc |-> pc, cmd |-> cmd, priv |-> priv, arg |-> arg, output |-> output, auth |-> auth,
     todo |-> IF pc = "fetch" THEN ToFetch(conf, priv) ELSE 0]

\* A priv command is invoked by actor: the "shell" check of the priv group
\* runs, then the command runs up to its first suspension point.  The
\* invocation takes the first free slot.  alone is TRUE when commands are run
\* one after another.  gone records a priv delete that passed its test and a
\* priv new that passed its test.
Invoke(s, actor, cmd, priv, arg, alone) ==
    /\ nCmds < (IF alone THEN MaxSeqCmds ELSE MaxCmds)
    /\ slot[s].pc = "idle"
    /\ \A t \in Slots : t < s => slot[t].pc # "idle"
    /\ alone => \A t \in Slots : slot[t].pc = "idle"
    /\ nCmds' = nCmds + 1
    /\ LET auth == InPrivSet(conf, "shell", actor)
           reject(result) ==
               /\ last' = Outcome(cmd, priv, arg, result, <<>>, auth)
               /\ UNCHANGED <<conf, slot, gone>>
           write(r) ==
               /\ conf' = r.conf
               /\ IF r.error # "none"
                  THEN /\ last' = Outcome(cmd, priv, arg, r.error, <<>>, auth)
                       /\ UNCHANGED <<slot, gone>>
                  ELSE /\ slot' = [slot EXCEPT ![s] = Busy(FirstAwait(cmd, r.conf, priv), cmd, priv, arg, <<>>, auth)]
                       /\ gone' = IF cmd = "delete" THEN gone \cup {priv} ELSE gone \ {priv}
                       /\ UNCHANGED last
       IN  IF ~PrivCheck_call(conf, "shell", actor) THEN reject("denied")
           ELSE CASE cmd = "new" -> write(priv_new(conf, priv))
                  [] cmd = "delete" -> write(priv_delete(conf, priv))
                  [] cmd = "show" ->
                       IF validate_priv(conf, priv) # "none"
                       THEN reject(validate_priv(conf, priv))
                       ELSE /\ slot' = [slot EXCEPT ![s] =
                                  Busy(FirstAwait(cmd, conf, priv), cmd, priv, arg, priv_show_output(conf, priv), auth)]
                            /\ UNCHANGED <<conf, last, gone>>
                  [] cmd \in {"add_user", "add_role"} ->
                       IF priv_add(conf, priv) # "none" THEN reject(priv_add(conf, priv))
                       ELSE /\ slot' = [slot EXCEPT ![s] = Busy("sub", cmd, priv, arg, <<>>, auth)]
                            /\ UNCHANGED <<conf, last, gone>>
                  [] cmd \in {"remove_user", "remove_role"} ->
                       IF priv_remove(conf, priv) # "none" THEN reject(priv_remove(conf, priv))
                       ELSE /\ slot' = [slot EXCEPT ![s] = Busy("sub", cmd, priv, arg, <<>>, auth)]
                            /\ UNCHANGED <<conf, last, gone>>
    /\ UNCHANGED <<relayVars, restartVars>>

\* The user/role subcommand of priv add / priv remove runs, after the
\* argument conversion, up to await conf.
SubCommand(s) ==
    /\ slot[s].pc = "sub"
    /\ LET r == SubBody(slot[s].cmd, conf, slot[s].priv, slot[s].arg)
       IN  /\ conf' = r.conf
           /\ IF r.error # "none"
              THEN /\ last' = Outcome(slot[s].cmd, slot[s].priv, slot[s].arg, r.error, <<>>,
                                      slot[s].auth)
                   /\ slot' = [slot EXCEPT ![s] = IdleSlot]
              ELSE /\ slot' = [slot EXCEPT ![s].pc = FirstAwait(slot[s].cmd, r.conf, slot[s].priv)]
                   /\ UNCHANGED last
    /\ UNCHANGED <<nCmds, gone, relayVars, restartVars>>

\* await conf returns.
AwaitConf(s) ==
    /\ slot[s].pc = "persist"
    /\ slot' = [slot EXCEPT ![s].pc = "send"]
    /\ UNCHANGED <<conf, nCmds, last, gone, relayVars, restartVars>>

\* await conf raises: the exception leaves the command, ctx.send is not
\* reached.
AwaitConfFail(s) ==
    /\ slot[s].pc = "persist"
    /\ last' = Outcome(slot[s].cmd, slot[s].priv, slot[s].arg, "persist_failed", <<>>,
                       slot[s].auth)
    /\ slot' = [slot EXCEPT ![s] = IdleSlot]
    /\ UNCHANGED <<conf, nCmds, gone, relayVars, restartVars>>

\* priv_show: await client.fetch_user(id) returns, for the next user of the
\* list read at the start; after the last user the roles are looked up and
\* the listing is handed to ctx.send.
FetchUser(s) ==
    /\ slot[s].pc = "fetch"
    /\ slot' = [slot EXCEPT ![s].todo = @ - 1,
                            ![s].pc = IF slot[s].todo > 1 THEN "fetch" ELSE "send"]
    /\ UNCHANGED <<conf, nCmds, last, gone, relayVars, restartVars>>

\* client.fetch_user raises: the exception leaves priv_show, nothing is sent.
FetchUserFail(s) ==
    /\ slot[s].pc = "fetch"
    /\ last' = Outcome(slot[s].cmd, slot[s].priv, slot[s].arg, "fetch_failed", <<>>,
                       slot[s].auth)
    /\ slot' = [slot EXCEPT ![s] = IdleSlot]
    /\ UNCHANGED <<conf, nCmds, gone, relayVars, restartVars>>

\* await ctx.send(...) raises: the exception leaves the command, nothing is
\* sent.
CtxSendFail(s) ==
    /\ slot[s].pc = "send"
    /\ last' = Outcome(slot[s].cmd, slot[s].priv, slot[s].arg, "send_failed", <<>>,
                       slot[s].auth)
    /\ slot' = [slot EXCEPT ![s] = IdleSlot]
    /\ UNCHANGED <<conf, nCmds, gone, relayVars, restartVars>>

\* await ctx.send(...): the confirmation (or the listing of show) is sent.
CtxSend(s) ==
    /\ slot[s].pc = "send"
    /\ last' = Outcome(slot[s].cmd, slot[s].priv, slot[s].arg, "sent", slot[s].output,
                       slot[s].auth)
    /\ slot' = [slot EXCEPT ![s] = IdleSlot]
    /\ UNCHANGED <<conf, nCmds, gone, relayVars, restartVars>>

(***************************************************************************)
(* Specifications                                                          *)
(***************************************************************************)
InitRelayVars ==
    /\ queue = <<>>
    /\ fwd = [t \in TaskIds |-> NoTask]
    /\ running = 0
    /\ sends = <<>>
    /\ nAccepted = 0
    /\ nEmit = 0
    /\ lastEmit = [reason |-> "none", spawn |-> FALSE, raised |-> FALSE, report |-> FALSE,
                   thread |-> "none"]
    /\ anyFail = FALSE
    /\ clientClosed = FALSE
    /\ loopState = "running"
    /\ pending = {}
    /\ will_restart = FALSE
    /\ restartCalled = FALSE
    /\ exitState = "up"

InitPrivVars ==
    /\ slot = [s \in Slots |-> IdleSlot]
    /\ nCmds = 0
    /\ last = NoOutcome
    /\ gone = {}

\* The store as loaded: the shell set holds the bot owner, no other set.
ConfShell(roles) == [p \in PrivNames |->
    IF p = "shell" THEN [users |-> List(<<1>>), roles |-> List(roles)]
    ELSE [users |-> NoneList, roles |-> NoneList]]

Init ==
    /\ InitRelayVars
    /\ channel \in ChannelValues
    /\ InitPrivVars
    /\ conf = ConfShell(<<>>)

Next ==
    \/ Emit
    \/ EmitOtherThread
    \/ \E f \in TaskIds : TaskStart(f)
    \/ \E f \in TaskIds : LoopIter(f)
    \/ \E f \in TaskIds : SendResume(f)
    \/ \E f \in TaskIds : SendSuspend(f)
    \/ \E f \in TaskIds : SendDone(f)
    \/ \E f \in TaskIds : SendFail(f)
    \/ Restart
    \/ LoopStop
    \/ LoopClose
    \/ ClientClose
    \/ ProcessExit

Spec == Init /\ [][Next]_vars

InitPriv ==
    /\ InitRelayVars
    /\ channel = NoChannel
    /\ InitPrivVars
    /\ conf \in {ConfShell(<<>>), ConfShell(<<10>>)}

InvokeAny(alone) ==
    \E s \in Slots, actor \in Invokers, cmd \in Cmds, priv \in PrivNames, arg \in Ids :
        /\ cmd \in {"add_user", "remove_user"} => arg \in UserIds
        /\ cmd \in {"add_role", "remove_role"} => arg \in RoleIds
        /\ cmd \in {"new", "delete", "show"} => arg = 1
        /\ Invoke(s, actor, cmd, priv, arg, alone)

NextPriv ==
    \/ InvokeAny(FALSE)
    \/ \E s \in Slots : SubCommand(s)
    \/ \E s \in Slots : AwaitConf(s)
    \/ \E s \in Slots : AwaitConfFail(s)
    \/ \E s \in Slots : FetchUser(s)
    \/ \E s \in Slots : FetchUserFail(s)
    \/ \E s \in Slots : CtxSend(s)
    \/ \E s \in Slots : CtxSendFail(s)

SpecPriv == InitPriv /\ [][NextPriv]_vars

NextPrivSeq ==
    \/ InvokeAny(TRUE)
    \/ \E s \in Slots : SubCommand(s)
    \/ \E s \in Slots : AwaitConf(s)
    \/ \E s \in Slots : AwaitConfFail(s)
    \/ \E s \in Slots : FetchUser(s)
    \/ \E s \in Slots : FetchUserFail(s)
    \/ \E s \in Slots : CtxSend(s)
    \/ \E s \in Slots : CtxSendFail(s)

SpecPrivSeq == InitPriv /\ [][NextPrivSeq]_vars

(***************************************************************************)
(* Log relay and restart trigger: properties (checked under Spec)          *)
(***************************************************************************)
\* log_discord tasks that have been created and have not ended.
ActiveTasks == {t \in TaskIds : fwd[t].pc \notin {"none", "done", "failed"}}
\* Idle: queue empty, no forwarding task active.
RelayIdle == Len(queue) = 0 /\ ActiveTasks = {}

RECURSIVE SentIds(_)
\* The lines of the given send calls, in send order.
SentIds(ss) == IF Len(ss) = 0 THEN <<>> ELSE Head(ss).ids \o SentIds(Tail(ss))

\* C1: at most one log_discord forwarding task is active at any time; an
\* emit() arriving while a forwarder is suspended in a send does not spawn a
\* second one.
C1_AtMostOneForwarder == Cardinality(ActiveTasks) <= 1

\* C2: when no send fails, once the relay is idle every accepted line has
\* been sent exactly once and the lines were sent in the order in which they
\* were enqueued.
C2_AllSentOnceInOrder ==
    (~anyFail /\ RelayIdle) => SentIds(sends) = [i \in 1..nAccepted |-> i]

\* C3: after restart() the module flag will_restart is true, so that the exit
\* hook run afterwards re-executes the process.
C3_RestartSetsFlag ==
    restartCalled => (will_restart /\ (exitState # "up" => exitState = "execd"))

\* C9: a failing send ends the task inside log_discord; the failure report
\* carries the no_discord marker, emit() returns on that marker, and the
\* report is neither appended to the queue nor spawns a forwarder.
C9_FailureReportNotRelayed ==
    /\ [](lastEmit.report =>
            (lastEmit.reason = "no_discord" /\ ~lastEmit.spawn /\ ~lastEmit.raised))
    /\ [][\A f \in TaskIds :
            (fwd[f].pc \in {"send_flush", "send_file", "send_final"} /\ fwd'[f].pc = "failed")
            => /\ queue' = queue
               /\ nAccepted' = nAccepted
               /\ \A t \in TaskIds \ {f} : fwd'[t] = fwd[t]
               /\ lastEmit'.report]_vars

\* C9 witness: a send has failed while lines were still queued, and the
\* failure report went through emit().
C9_Witness ==
    /\ anyFail /\ lastEmit.report
    /\ Len(queue) > 0
    /\ \E f \in TaskIds : fwd[f].pc = "failed"

\* C10: every text message sent has at most 2000 characters, and so has the
\* buffer of every forwarding task at all times.
C10_MessageWithinLimit ==
    /\ \A i \in 1..Len(sends) : sends[i].kind = "message" => sends[i].len <= Limit
    /\ \A f \in TaskIds : fwd[f].message.len <= Limit

\* C10 witness: a buffer of two lines was flushed because the third did not
\* fit, and a message of exactly 2000 characters was sent.
C10_Witness ==
    /\ \E i \in 1..Len(sends) : sends[i].kind = "message" /\ Len(sends[i].ids) = 2
    /\ \E i \in 1..Len(sends) : sends[i].kind = "message" /\ sends[i].len = Limit

\* The line log_discord task f is handling in this step: the one it holds
\* across the flush, or the one it pops.
LineInHand(f) == IF fwd[f].pc = "send_flush" THEN fwd[f].text ELSE Head(queue)
\* Task f takes a line in hand in this step: it pops one and does not have
\* to flush first, or it comes back from the flush.
HandlesLine(f) ==
    \/ fwd[f].pc = "send_flush" /\ fwd'[f].pc # "send_flush" /\ fwd'[f].pc # "failed"
    \/ /\ fwd[f].pc = "loop" /\ running = f /\ Len(queue) > 0 /\ queue' = Tail(queue)
       /\ fwd'[f].pc # "send_flush"

\* C11: a line whose wrapped length alone exceeds 2000 is sent as a log.txt
\* attachment and never enters a text message; a non-empty buffer is flushed
\* as a message before the attachment, and the buffer is empty after the
\* attachment is sent.
C11_OversizedLineAsFile ==
    [][\A f \in TaskIds :
        /\ (HandlesLine(f) /\ CodeblockLen(LineInHand(f).len) > Limit) =>
              /\ sends' = Append(sends, FileSend(LineInHand(f)))
              /\ fwd'[f].pc = "send_file"
              /\ fwd'[f].message = fwd[f].message
              /\ (fwd[f].message.len = 0 \/ fwd[f].pc = "send_flush")
        /\ (fwd[f].pc = "loop" /\ running = f /\ Len(queue) > 0 /\ queue' = Tail(queue)
              /\ CodeblockLen(Head(queue).len) > Limit /\ fwd[f].message.len > 0) =>
              /\ sends' = Append(sends, MessageSend(fwd[f].message))
              /\ fwd'[f].pc = "send_flush" /\ fwd'[f].text = Head(queue)
        /\ (fwd'[f].message # fwd[f].message /\ fwd'[f].message.len > 0) =>
              /\ HandlesLine(f)
              /\ CodeblockLen(LineInHand(f).len) <= Limit
              /\ fwd'[f].message.ids \in {<<LineInHand(f).id>>,
                                          Append(fwd[f].message.ids, LineInHand(f).id)}
        /\ (fwd[f].pc = "send_file" /\ fwd'[f].pc \notin {"send_file", "failed"}) =>
              fwd'[f].message = EmptyMessage
        /\ (Len(sends') > Len(sends) /\ sends'[Len(sends')].kind = "message"
              /\ fwd'[f] # fwd[f]) =>
              sends'[Len(sends')] = MessageSend(fwd[f].message)
      ]_vars

\* C12: whenever no forwarding task is active the pending queue is empty;
\* the sink is never left with queued lines and no forwarder.
C12_NoForwarderQueueEmpty == (ActiveTasks = {}) => Len(queue) = 0

\* This step is an emit() call made from other code than log_discord's
\* failure handler.
EmitCall == nEmit' = nEmit + 1

\* The event loop is not running: loop.stop() has taken effect and
\* run_forever has returned, or the loop has been closed since.
LoopDown == loopState \in {"stopped", "closed"}

\* C14: an emit() made with no channel configured, with a channel that is not
\* an integer, with the client closed, with the event loop closed or shut
\* down, or from a thread that has no event loop, returns without raising,
\* leaves the queue unchanged and spawns no task.
C14_SilentDrop ==
    [][(EmitCall /\ (\/ channel.isNone
                      \/ ~IntParses(channel.s)
                      \/ clientClosed
                      \/ LoopDown
                      \/ lastEmit'.thread = "other"))
        => /\ queue' = queue
           /\ nAccepted' = nAccepted
           /\ fwd' = fwd
           /\ ~lastEmit'.raised /\ ~lastEmit'.spawn]_vars

\* The conditions under which emit() drops a record before it looks at the
\* calling frames.
DropsEarly ==
    channel.isNone \/ ~IntParses(channel.s) \/ clientClosed \/ loopState = "closed"

\* C15: an emit() whose call stack is inside log_discord is dropped, queue
\* and tasks unchanged; an emit() by another task of the loop, made while a
\* forwarder is suspended in a send and none is executing, is appended to
\* the queue.
C15_ReentrantDropped ==
    [][/\ (EmitCall /\ lastEmit'.thread = "loop" /\ InLogDiscord) =>
             /\ queue' = queue /\ fwd' = fwd /\ nAccepted' = nAccepted
             /\ ~lastEmit'.spawn /\ ~lastEmit'.raised
             /\ ~DropsEarly => lastEmit'.reason = "nested"
       /\ (EmitCall /\ lastEmit'.thread = "loop" /\ ~InLogDiscord /\ ~DropsEarly
             /\ \E f \in TaskIds : fwd[f].pc \in InSend) =>
             /\ lastEmit'.reason = "queued"
             /\ Len(queue') = Len(queue) + 1
             /\ SubSeq(queue', 1, Len(queue)) = queue
             /\ queue'[Len(queue')].id = nAccepted + 1
      ]_vars

\* C15 witness: a forwarder is executing inside the send it awaits, a record
\* logged from inside that send was dropped by the frame test, and a line
\* is still queued.
C15_Witness ==
    /\ lastEmit.reason = "nested"
    /\ \E f \in TaskIds : running = f /\ fwd[f].pc \in InSend
    /\ Len(queue) > 0

(***************************************************************************)
(* Privilege store: properties                                             *)
(***************************************************************************)
Elems(ids) == {ids[i] : i \in 1..Len(ids)}
NoDup(ids) == \A i, j \in 1..Len(ids) : i # j => ids[i] # ids[j]
Without(ids, i) == SubSeq(ids, 1, i - 1) \o SubSeq(ids, i + 1, Len(ids))
BothUnset(c, p) == c[p].users.none /\ c[p].roles.none
BothSet(c, p) == ~c[p].users.none /\ ~c[p].roles.none
EmptySet(c, p) == c[p] = [users |-> List(<<>>), roles |-> List(<<>>)]

\* C4: has_privilege(name, actor) is true iff the actor's ID is in the users
\* list or the actor is a Member with a role in the roles list; false
\* otherwise, for unset lists and for plain Users.  (SpecPriv)
C4_HasPrivilegeIff ==
    \A p \in PrivNames, a \in Actors : has_privilege(conf, p, a) <=> InPrivSet(conf, p, a)

\* C4 witness: a set whose only member is role 10: a Member holding the role
\* has the privilege, a plain User with the same ID has not, and nobody has
\* the privilege of a set that does not exist.
C4_Witness ==
    /\ conf["mod"].users = List(<<>>) /\ conf["mod"].roles = List(<<10>>)
    /\ has_privilege(conf, "mod", [id |-> 2, member |-> TRUE, roles |-> {10}])
    /\ ~has_privilege(conf, "mod", [id |-> 2, member |-> FALSE, roles |-> {}])
    /\ last.result = "sent" /\ last.cmd = "add_role"

\* The slot in which this step started a command body, if any.
Started(s) == slot[s].pc = "idle" /\ slot'[s].pc # "idle"
\* This step is the invocation of a command that was turned away at once.
TurnedAway == nCmds' = nCmds + 1 /\ slot' = slot

\* C5: with commands run one after another (each by an actor who passes the
\* shell check, so that the command runs): a successful priv new leaves both
\* lists set and empty and show then lists no member; priv new on an existing
\* set is rejected as already existing; a successful priv delete unsets both
\* lists, and from then on (and whenever both lists are unset) every show,
\* add, remove and delete on the name is rejected as not existing and
\* leaves the store as it is; only a successful priv new makes the set
\* exist again.  (SpecPrivSeq)
C5_CreateDeleteLifecycle ==
    [][/\ \A s \in Slots : (Started(s) /\ slot'[s].cmd = "new") =>
              EmptySet(conf', slot'[s].priv)
       /\ \A s \in Slots : (Started(s) /\ slot'[s].cmd = "show"
                              /\ EmptySet(conf, slot'[s].priv)) =>
              slot'[s].output = <<>>
       /\ \A s \in Slots : (Started(s) /\ slot'[s].cmd = "delete") =>
              BothUnset(conf', slot'[s].priv)
       /\ (nCmds' = nCmds + 1 /\ last'.auth /\ TurnedAway /\ last'.cmd = "new") =>
              (BothSet(conf, last'.priv) /\ last'.result = "already_exists")
       /\ \A s \in Slots : (Started(s) /\ slot'[s].cmd = "new") =>
              BothUnset(conf, slot'[s].priv)
       /\ \A s \in Slots : (Started(s) /\ slot'[s].cmd # "new") =>
              (~BothUnset(conf, slot'[s].priv) /\ slot'[s].priv \notin gone)
       /\ (TurnedAway /\ last'.auth /\ last'.cmd # "new" /\ last'.cmd # "none"
              /\ (BothUnset(conf, last'.priv) \/ last'.priv \in gone)) =>
              (last'.result = "does_not_exist" /\ conf' = conf /\ gone' = gone)
       /\ \A p \in PrivNames : (BothUnset(conf, p) /\ conf'[p] # conf[p]) =>
              \E s \in Slots : Started(s) /\ slot'[s].cmd = "new" /\ slot'[s].priv = p
       /\ \A p \in gone' : BothUnset(conf', p)
       /\ \A p \in gone \ gone' :
              \E s \in Slots : Started(s) /\ slot'[s].cmd = "new" /\ slot'[s].priv = p
      ]_vars

\* C5 witness: a set was created and then deleted, a later add user on its
\* name by an actor who passes the shell check was rejected as not existing,
\* and the set is still unset.
C5_Witness ==
    /\ "mod" \in gone
    /\ last.cmd = "add_user" /\ last.priv = "mod" /\ last.auth
    /\ last.result = "does_not_exist"
    /\ BothUnset(conf, "mod")
    /\ nCmds >= 3

\* The add/remove subcommand body runs in slot s in this step.
SubStep(s) == slot[s].pc = "sub" /\ slot'[s].pc # "sub"
\* The list an add/remove subcommand works on.
ListOf(c, p, cmd) == IF cmd \in {"add_user", "remove_user"} THEN c[p].users ELSE c[p].roles
OtherListOf(c, p, cmd) == IF cmd \in {"add_user", "remove_user"} THEN c[p].roles ELSE c[p].users

\* C6: the user list and the role list of every set hold no ID twice; add is
\* rejected when the ID is present and otherwise appends it at the end;
\* remove is rejected when the ID is absent and otherwise removes exactly
\* that ID, the other members keeping their order.  (SpecPriv)
C6_ListsUniqueOrdered ==
    /\ [](\A p \in PrivNames : NoDup(conf[p].users.ids) /\ NoDup(conf[p].roles.ids))
    /\ [][\A s \in Slots : SubStep(s) =>
            LET cmd == slot[s].cmd
                p == slot[s].priv
                id == slot[s].arg
                old == ListOf(conf, p, cmd).ids
                new == ListOf(conf', p, cmd)
                frame == /\ OtherListOf(conf', p, cmd) = OtherListOf(conf, p, cmd)
                         /\ \A q \in PrivNames \ {p} : conf'[q] = conf[q]
            IN  IF cmd \in {"add_user", "add_role"}
                THEN IF id \in Elems(old)
                     THEN conf' = conf /\ slot'[s].pc = "idle" /\ last'.result = "already_in"
                     ELSE new = List(Append(old, id)) /\ frame /\ slot'[s].pc = "persist"
                ELSE IF id \notin Elems(old)
                     THEN conf' = conf /\ slot'[s].pc = "idle" /\ last'.result = "not_in"
                     ELSE /\ \E i \in 1..Len(old) : old[i] = id /\ new = List(Without(old, i))
                          /\ id \notin Elems(new.ids)
                          /\ frame /\ slot'[s].pc = "persist"]_vars

\* C6 witness: user 2 was added after user 1 and user 1 was then removed,
\* leaving user 2.
C6_Witness ==
    /\ conf["shell"].users = List(<<2>>)
    /\ last.cmd = "remove_user" /\ last.arg = 1 /\ last.result = "sent"

UserErrors == {"does_not_exist", "already_exists", "already_in", "not_in"}

\* C7: a command rejected with a user-facing error changes neither list of
\* any set in any of its steps, and no confirmation is sent for it.
\* (SpecPriv)
C7_RejectedLeavesStore ==
    [][/\ TurnedAway => (conf' = conf /\ last'.result \in UserErrors \cup {"denied"})
       /\ \A s \in Slots : (Started(s) /\ slot'[s].pc = "sub") => conf' = conf
       /\ \A s \in Slots : (SubStep(s) /\ slot'[s].pc = "idle") =>
              (conf' = conf /\ last'.result \in UserErrors)
       /\ (last' # last /\ last'.result \in UserErrors) => conf' = conf
      ]_vars

\* C7 witness: removing role 11 from a set that holds role 10 only has been
\* rejected, after the set had been changed by an earlier command.
C7_Witness ==
    /\ last.cmd = "remove_role" /\ last.arg = 11 /\ last.result = "not_in"
    /\ conf[last.priv].roles = List(<<10>>)
    /\ nCmds = 2

\* C8: a priv subcommand runs its body, and the store changes, only for an
\* invocation whose actor was in the "shell" set when the command was
\* invoked; an invocation by an actor outside it is denied and leaves the
\* store unchanged.  (SpecPriv)
C8_GatedByShell ==
    /\ [](\A s \in Slots : slot[s].pc # "idle" => slot[s].auth)
    /\ [](last.result \in UserErrors \cup {"sent"} => last.auth)
    /\ [][/\ (TurnedAway /\ ~last'.auth) => (last'.result = "denied" /\ conf' = conf)
          /\ conf' # conf => \E s \in Slots : slot'[s].pc = "persist" /\ slot'[s].auth
                                              /\ slot[s].pc \in {"idle", "sub"}]_vars

\* C8 witness: an actor outside the shell set has been denied after the
\* store had been changed by an actor inside it.
C8_Witness ==
    /\ last.result = "denied" /\ ~last.auth
    /\ ~BothUnset(conf, "mod")

Mutating == Cmds \ {"show"}

\* C13: in every mutating command the confirmation is sent only after the
\* store write was issued and await conf has returned; when await conf fails
\* no confirmation is sent.  (SpecPriv)
C13_ConfirmAfterPersist ==
    [][\A s \in Slots :
        /\ (slot'[s].pc = "send" /\ slot[s].pc # "send" /\ slot'[s].cmd \in Mutating) =>
              (slot[s].pc = "persist" /\ conf' = conf /\ last' = last)
        /\ (slot'[s].pc = "persist" /\ slot[s].pc # "persist") =>
              (slot[s].pc \in {"idle", "sub"} /\ slot'[s].cmd \in Mutating)
        /\ (slot[s].pc # "idle" /\ slot'[s].pc = "idle" /\ slot[s].cmd \in Mutating
              /\ last'.result = "sent") => slot[s].pc = "send"
        /\ (slot[s].pc = "persist" /\ slot'[s].pc = "idle") => last'.result = "persist_failed"
        /\ (last' # last /\ last'.result = "sent") =>
              \E t \in Slots : slot[t].pc = "send" /\ slot'[t].pc = "idle"
      ]_vars

\* C13 witness: the confirmation of a priv new was sent, after its await
\* conf returned, while the await conf of another command is still pending.
C13_Witness ==
    /\ last.cmd = "new" /\ last.result = "sent"
    /\ \E s \in Slots : slot[s].pc = "persist"

\* C17: for every privilege name, in every reachable state, the users entry
\* is unset iff the roles entry is unset, also when invocations interleave
\* at their await points.  (SpecPriv)
C17_UsersUnsetIffRolesUnset ==
    \A p \in PrivNames : conf[p].users.none <=> conf[p].roles.none

\* No actor satisfies has_privilege("shell", actor).
NoShellHolder == \A a \in Actors : ~has_privilege(conf, "shell", a)

\* C18 as stated: a state in which no actor holds "shell" is absorbing: from
\* it every priv command by every actor is denied and the privilege store
\* never changes again.  (SpecPriv)
C18_LockoutAbsorbing ==
    [][NoShellHolder =>
          /\ conf' = conf
          /\ (nCmds' = nCmds + 1 => (TurnedAway /\ last'.result = "denied"))]_vars

\* C18 amended: in a state in which no actor holds "shell", every priv
\* command invoked by any actor is denied and leaves the store unchanged;
\* the store changes only through the subcommand body of a priv add /
\* priv remove invocation that passed the check before, and while no such
\* invocation is pending the state stays without a holder.  (SpecPriv)
C18_LockoutDeniesNewCommands ==
    [][NoShellHolder =>
          /\ (nCmds' = nCmds + 1 =>
                 (TurnedAway /\ last'.result = "denied" /\ ~last'.auth /\ conf' = conf))
          /\ (conf' # conf =>
                 \E s \in Slots : /\ SubStep(s) /\ slot[s].auth
                                   /\ slot[s].cmd \in {"add_user", "add_role",
                                                        "remove_user", "remove_role"})
          /\ ((\A s \in Slots : slot[s].pc # "sub") => (conf' = conf /\ NoShellHolder'))
      ]_vars

\* C18 witness: after `priv delete shell` no actor holds "shell" and a priv
\* command has been denied.
C18_Witness ==
    /\ NoShellHolder
    /\ BothUnset(conf, "shell")
    /\ last.result = "denied"
    /\ \A s \in Slots : slot[s].pc = "idle"

====
